---- MODULE Spec2Model ----
(***************************************************************************)
(* Model of the arbitrage engine: the Concurrency Coordinator and the      *)
(* Trade Execution State Machine of src/arbitrage/index.js (specification  *)
(* Spec) and the per-venue Circuit Breaker of src/utils/errors.js          *)
(* (specification SpecCB), the backoff executor withRetry (SpecRetry), the *)
(* opportunity detector (SpecDetect), the venue health tracker with the   *)
(* head of the scan cycle (SpecHealth), the quote collection of one cycle  *)
(* (SpecCollect), the engine with its timers scheduled (SpecSweep), one    *)
(* execution with its order placements (SpecTrade, SpecTradeFair), the     *)
(* start of the scanner (SpecStart), successive scan cycles (SpecCycles)   *)
(* and the health tracker with its intervals scheduled (SpecHealthFair).   *)
(***************************************************************************)
EXTENDS Integers, Sequences, FiniteSets, Bags, TLC

(***************************************************************************)
(* Program constants                                                       *)
(***************************************************************************)
Cooldown == 60000
staleThreshold == 300000
SCAN_INTERVAL == 10000
failureThreshold == 3
resetTimeout == 30000
TRADE_AMOUNT == 100
healthThreshold == 300000
maxErrorCount == 3

(***************************************************************************)
(* Bounds of the model                                                     *)
(***************************************************************************)
MaxCeiling == 2
NumCallers == 2
MaxScans == 7
MaxRetries == 3
MaxPending == 3
MaxTicks == (staleThreshold \div Cooldown) + 1

Symbols == {"BTC/USDT", "ETH/USDT"}
Venues == {"binance", "kraken"}
SUPPORTED_EXCHANGES == {"binance", "coinbase", "kraken"}

\* key = `${symbol}-${lowestAsk.exchange}-${highestBid.exchange}`; neither a
\* symbol nor an exchange id contains '-', so the string is determined by, and
\* determines, the triple.
Key(symbol, buy, sell) == <<symbol, buy, sell>>
Keys == {Key(s, b, v) : s \in Symbols, b \in Venues, v \in Venues}

VARIABLES
    MAX_CONCURRENT_TRADES,  \* parseInt(process.env.MAX_CONCURRENT_TRADES || '3')
    now,                    \* Date.now()
    activeArbitrageOps,     \* Map key -> Date.now() of the dispatch
    execs,                  \* bag of the trade executions that are running
    timers,                 \* bag of the pending cooldown timers
    lastAttempt,            \* the dispatch decision taken by the last step
    lastFinished,           \* the execution that ended in the last step
    breaker,                \* one venue's CircuitBreaker
    callers,                \* the calls made through breaker.execute
    consecutive,            \* failed calls since the last successful one
    edges,                  \* the state transitions the breaker has made
    notified,               \* the state the breaker's last step passed to onStateChange
    invocation,             \* one invocation of withRetry: its options and frame
    ARBITRAGE_THRESHOLD,    \* parseFloat(process.env.ARBITRAGE_THRESHOLD || '0.5')
    priceData,              \* the quotes handed to the detector, in input order
    detection,              \* what the detector did with priceData
    exchangeHealth,         \* Map exchangeId -> { healthy, errorCount, lastSuccessfulScan }
    pending,                \* bag of the quote fetches that are in flight
    failures,               \* per venue, the failed fetches since its last quote
    swept,                  \* the last step was the periodic health sweep
    scan,                   \* one scan cycle: what each pair's fetches brought
    trade,                  \* one call of executeArbitrage and its order placements
    scanner                 \* startArbitrageScanner: what it has started

\* One execution more than the ceiling can be alive or cooling down.
MaxExecs == MAX_CONCURRENT_TRADES + 1

engineVars == <<MAX_CONCURRENT_TRADES, activeArbitrageOps, execs, timers,
                lastAttempt, lastFinished>>
breakerVars == <<breaker, callers, consecutive, edges, notified>>
retryVars == <<invocation>>
detectVars == <<ARBITRAGE_THRESHOLD, priceData, detection>>
healthVars == <<exchangeHealth, pending, failures, swept>>
collectVars == <<scan>>
tradeVars == <<trade>>
startVars == <<scanner>>
laterVars == <<collectVars, tradeVars, startVars>>
otherVars == <<retryVars, detectVars, healthVars, laterVars>>
vars == <<now, engineVars, breakerVars, otherVars>>

NoAttempt == [decided |-> FALSE, has |-> FALSE, activeOps |-> 0, admitted |-> FALSE]
NoExec ==
    [pc |-> "Idle", buyOrder |-> "none", sellOrder |-> "none",
     buyCalls |-> 0, sellCalls |-> 0, trades |-> 0, critical |-> 0]

Null == 0 - 1
Callers == 1..NumCallers
NoCall == [st |-> "idle", admittedIn |-> "none", result |-> "none"]

\* CircuitBreaker constructor
InitBreaker ==
    /\ breaker = [state |-> "CLOSED", failureCount |-> 0, lastFailureTime |-> Null]
    /\ callers = [c \in Callers |-> NoCall]
    /\ consecutive = 0
    /\ edges = {}
    /\ notified = "none"

\* withRetry's defaults: maxRetries = 3, baseDelay = 1000, maxDelay = 10000,
\* backoffFactor = 2; no invocation has been made.
NoInvocation ==
    [maxRetries |-> 3, baseDelay |-> 1000, maxDelay |-> 10000, backoffFactor |-> 2,
     pc |-> "idle", attempt |-> 0, calls |-> 0, outcomes |-> <<>>, delays |-> <<>>,
     result |-> "none", thrown |-> "none"]

\* The detector has not been called.  Prices are in tenths of the quote
\* currency and ARBITRAGE_THRESHOLD in hundredths of a percent, so that the
\* default 0.5 is 50.
NoOpportunity == [buyExchange |-> "none"]
NoDetection ==
    [called |-> FALSE, priceData |-> <<>>, opportunity |-> NoOpportunity,
     recorded |-> 0, dispatch |-> <<>>]

IdleDetector ==
    /\ ARBITRAGE_THRESHOLD = 50
    /\ priceData = <<>>
    /\ detection = NoDetection

IdleRetry == invocation = NoInvocation

\* const exchangeHealth = new Map(): the scanner has not been started.
IdleHealth ==
    /\ exchangeHealth = <<>>
    /\ pending = EmptyBag
    /\ failures = <<>>
    /\ swept = FALSE

\* No scan cycle has begun.
NoScan ==
    [pc |-> "idle", exchanges |-> {}, queried |-> {}, results |-> <<>>,
     status |-> <<>>, priceData |-> <<>>, scanErrors |-> <<>>]
IdleCollect == scan = NoScan

\* executeArbitrage has not been called.
NoLegCall == [leg |-> "none", state |-> "none", attempt |-> 0, value |-> "none"]
NoTrade ==
    [pc |-> "Idle", dispatched |-> "none", input |-> <<>>, env |-> <<>>,
     call |-> NoLegCall, calls |-> <<>>, placed |-> <<>>, delays |-> <<>>,
     breakers |-> <<>>, recorded |-> <<>>, critical |-> 0]
IdleTrade == trade = NoTrade

\* startArbitrageScanner has not been called.
NoScanner ==
    [pc |-> "idle", config |-> <<>>, exchanges |-> {}, intervals |-> {},
     scans |-> 0, sweeps |-> 0]
IdleStart == scanner = NoScanner

InitOther ==
    /\ IdleRetry
    /\ IdleDetector
    /\ IdleHealth
    /\ IdleCollect
    /\ IdleTrade
    /\ IdleStart

InitEngine ==
    /\ now = 0
    /\ activeArbitrageOps = <<>>
    /\ execs = EmptyBag
    /\ timers = EmptyBag
    /\ lastAttempt = NoAttempt
    /\ lastFinished = NoExec

\* validateConfiguration accepts a ceiling in 1..10.
Init ==
    /\ MAX_CONCURRENT_TRADES \in 1..MaxCeiling
    /\ InitEngine
    /\ InitBreaker
    /\ InitOther

has(ops, key) == key \in DOMAIN ops
size(ops) == Cardinality(DOMAIN ops)
set(ops, key, ts) == [k \in (DOMAIN ops) \cup {key} |-> IF k = key THEN ts ELSE ops[k]]
delete(ops, key) == [k \in (DOMAIN ops) \ {key} |-> ops[k]]

\* if (!activeArbitrageOps.has(key) && activeArbitrageOps.size < MAX_CONCURRENT_TRADES)
ShouldExecuteNoDedup(ops, key) == size(ops) < MAX_CONCURRENT_TRADES
ShouldExecuteNoCeiling(ops, key) == ~has(ops, key)
ShouldExecuteWhenIdle(ops, key) ==
    ~has(ops, key) /\ size(ops) < MAX_CONCURRENT_TRADES /\ execs = EmptyBag
ShouldExecute(ops, key) == ~has(ops, key) /\ size(ops) < MAX_CONCURRENT_TRADES

\* executeArbitrage up to its first suspension: the inputs produced by the
\* detector pass the validation, and the buy placement is invoked.
NewExec(key) ==
    [key |-> key, pc |-> "BuyPending", buyOrder |-> "pending", sellOrder |-> "none",
     buyCalls |-> 1, sellCalls |-> 0, trades |-> 0, critical |-> 0]

\* What the engine reports of an execution that ended: everything but its key.
Outcome(ex) ==
    [pc |-> ex.pc, buyOrder |-> ex.buyOrder, sellOrder |-> ex.sellOrder,
     buyCalls |-> ex.buyCalls, sellCalls |-> ex.sellCalls, trades |-> ex.trades,
     critical |-> ex.critical]

\* The dispatch decision as the engine logs it: whether the key was present,
\* the number of entries, and the branch taken.
Attempt(ops, key, admitted) ==
    [decided |-> TRUE, has |-> has(ops, key), activeOps |-> size(ops),
     admitted |-> admitted]

\* The outcome of the buy leg: executeBuy resolves to an order or to null;
\* `if (!buyOrder) throw BUY_ORDER_FAILED`, else the sell placement is invoked.
AfterBuyNoCheck(ex, order) ==
    [ex EXCEPT !.buyOrder = order, !.pc = "SellPending", !.sellOrder = "pending",
               !.sellCalls = @ + 1]
AfterBuy(ex, order) ==
    IF order = "null"
    THEN [ex EXCEPT !.buyOrder = order, !.pc = "Failed"]
    ELSE [ex EXCEPT !.buyOrder = order, !.pc = "SellPending", !.sellOrder = "pending",
                    !.sellCalls = @ + 1]

\* The outcome of the sell leg: `if (!sellOrder)` logs CRITICAL and throws
\* SELL_ORDER_FAILED_AFTER_BUY, else the trade record is handed to recordTrade.
AfterSellAsFailed(ex, order) ==
    IF order = "null"
    THEN [ex EXCEPT !.sellOrder = order, !.pc = "Failed"]
    ELSE [ex EXCEPT !.sellOrder = order, !.pc = "Completed", !.trades = @ + 1]
AfterSellRecordAlways(ex, order) ==
    IF order = "null"
    THEN [ex EXCEPT !.sellOrder = order, !.pc = "PartiallyFailed", !.critical = @ + 1,
                    !.trades = @ + 1]
    ELSE [ex EXCEPT !.sellOrder = order, !.pc = "Completed", !.trades = @ + 1]
AfterSell(ex, order) ==
    IF order = "null"
    THEN [ex EXCEPT !.sellOrder = order, !.pc = "PartiallyFailed", !.critical = @ + 1]
    ELSE [ex EXCEPT !.sellOrder = order, !.pc = "Completed", !.trades = @ + 1]

Terminal == {"Completed", "Failed", "PartiallyFailed"}
Orders == {"null", "order"}

\* An execution that took a step: it keeps running, or it has ended and the
\* finally block of executeArbitrageWithRecovery arms its cooldown timer.
Step(ex, ex2) ==
    IF ex2.pc \in Terminal
    THEN /\ execs' = execs (-) SetToBag({ex})
         /\ timers' = timers (+) SetToBag({[key |-> ex.key, due |-> now + Cooldown]})
         /\ lastFinished' = Outcome(ex2)
    ELSE /\ execs' = (execs (-) SetToBag({ex})) (+) SetToBag({ex2})
         /\ timers' = timers
         /\ lastFinished' = NoExec

\* The dispatch decision of findAndExecuteArbitrageOpportunity together with the
\* synchronous prefix of executeArbitrageWithRecovery (activeArbitrageOps.set)
\* and of executeArbitrage: no await separates the check from the insertion.
TryDispatch(symbol, buy, sell) ==
    LET key == Key(symbol, buy, sell) IN
    /\ buy # sell
    /\ IF ShouldExecute(activeArbitrageOps, key)
       THEN /\ BagCardinality(execs) + BagCardinality(timers) < MaxExecs
            /\ activeArbitrageOps' = set(activeArbitrageOps, key, now)
            /\ execs' = execs (+) SetToBag({NewExec(key)})
            /\ lastAttempt' = Attempt(activeArbitrageOps, key, TRUE)
       ELSE /\ lastAttempt' = Attempt(activeArbitrageOps, key, FALSE)
            /\ UNCHANGED <<activeArbitrageOps, execs>>
    /\ lastFinished' = NoExec
    /\ UNCHANGED <<MAX_CONCURRENT_TRADES, now, timers, breakerVars, otherVars>>

BuyReturns(ex, order) ==
    /\ ex.pc = "BuyPending"
    /\ Step(ex, AfterBuy(ex, order))
    /\ lastAttempt' = NoAttempt
    /\ UNCHANGED <<MAX_CONCURRENT_TRADES, now, activeArbitrageOps, breakerVars, otherVars>>

SellReturns(ex, order) ==
    /\ ex.pc = "SellPending"
    /\ Step(ex, AfterSell(ex, order))
    /\ lastAttempt' = NoAttempt
    /\ UNCHANGED <<MAX_CONCURRENT_TRADES, now, activeArbitrageOps, breakerVars, otherVars>>

\* setTimeout(() => activeArbitrageOps.delete(key), 60000)
CooldownFires(t) ==
    /\ t.due <= now
    /\ activeArbitrageOps' = delete(activeArbitrageOps, t.key)
    /\ timers' = timers (-) SetToBag({t})
    /\ lastAttempt' = NoAttempt
    /\ lastFinished' = NoExec
    /\ UNCHANGED <<MAX_CONCURRENT_TRADES, now, execs, breakerVars, otherVars>>

StaleKeysOfEnded(ops, t) ==
    {k \in DOMAIN ops : t - ops[k] > staleThreshold /\ \A ex \in BagToSet(execs) : ex.key # k}
StaleKeys(ops, t) == {k \in DOMAIN ops : t - ops[k] > staleThreshold}

cleanupStaleOperations ==
    /\ activeArbitrageOps' =
           [k \in (DOMAIN activeArbitrageOps) \ StaleKeys(activeArbitrageOps, now)
              |-> activeArbitrageOps[k]]
    /\ lastAttempt' = NoAttempt
    /\ lastFinished' = NoExec
    /\ UNCHANGED <<MAX_CONCURRENT_TRADES, now, execs, timers, breakerVars, otherVars>>

\* Time passes; a cooldown timer that is due fires before the clock moves on.
Tick ==
    /\ now < MaxTicks * Cooldown
    /\ \A t \in BagToSet(timers) : t.due > now
    /\ now' = now + Cooldown
    /\ lastAttempt' = NoAttempt
    /\ lastFinished' = NoExec
    /\ UNCHANGED <<MAX_CONCURRENT_TRADES, activeArbitrageOps, execs, timers, breakerVars, otherVars>>

Next ==
    \/ \E s \in Symbols, b \in Venues, v \in Venues : TryDispatch(s, b, v)
    \/ \E ex \in BagToSet(execs), order \in Orders : BuyReturns(ex, order)
    \/ \E ex \in BagToSet(execs), order \in Orders : SellReturns(ex, order)
    \/ \E t \in BagToSet(timers) : CooldownFires(t)
    \/ cleanupStaleOperations
    \/ Tick

Spec == Init /\ [][Next]_vars

(***************************************************************************)
(* Claims about the engine, checked under Spec                             *)
(***************************************************************************)
AllExecs == BagToSet(execs) \cup {lastFinished}

\* C1: a dispatch attempt for a key whose ActiveOperation entry is present is
\* rejected and changes nothing; an admitted attempt found the key absent
\* and inserted its entry in the same step.
C1_DispatchDedup ==
    lastAttempt.decided =>
        /\ lastAttempt.has => ~lastAttempt.admitted
        /\ size(activeArbitrageOps) =
               lastAttempt.activeOps + (IF lastAttempt.admitted THEN 1 ELSE 0)
        /\ lastAttempt.admitted =>
               \E ex \in BagToSet(execs) :
                   /\ ex.pc = "BuyPending"
                   /\ has(activeArbitrageOps, ex.key)
                   /\ activeArbitrageOps[ex.key] = now

\* A second attempt for a key was rejected because its entry was present,
\* although the ceiling would have let it through.
C1_Witness ==
    /\ lastAttempt.decided
    /\ lastAttempt.has
    /\ ~lastAttempt.admitted
    /\ lastAttempt.activeOps < MAX_CONCURRENT_TRADES

\* C2: the number of ActiveOperation entries never exceeds the ceiling, and an
\* attempt made with the count at the ceiling is rejected and inserts nothing.
C2_Ceiling ==
    /\ size(activeArbitrageOps) <= MAX_CONCURRENT_TRADES
    /\ (lastAttempt.decided /\ lastAttempt.activeOps >= MAX_CONCURRENT_TRADES) =>
           /\ ~lastAttempt.admitted
           /\ size(activeArbitrageOps) = lastAttempt.activeOps

\* An attempt for a key without an entry was rejected at the ceiling.
C2_Witness ==
    /\ lastAttempt.decided
    /\ ~lastAttempt.has
    /\ ~lastAttempt.admitted
    /\ lastAttempt.activeOps = MAX_CONCURRENT_TRADES
    /\ size(activeArbitrageOps) = MAX_CONCURRENT_TRADES

\* C3: the number of trade executions that have been dispatched and have not
\* reached a terminal state is at most the concurrency ceiling.
C3_RunningWithinCeiling == BagCardinality(execs) <= MAX_CONCURRENT_TRADES

\* C4: the sell placement is invoked only after the buy placement succeeded; an
\* execution whose buy leg failed ends Failed, with no sell placement and no
\* Trade record.
C4_BuyBeforeSell ==
    \A ex \in AllExecs :
        /\ ex.sellCalls > 0 => ex.buyOrder = "order"
        /\ ex.sellOrder # "none" => ex.buyOrder = "order"
        /\ ex.buyOrder = "null" =>
               ex.pc = "Failed" /\ ex.sellCalls = 0 /\ ex.trades = 0
        /\ ex.pc = "Failed" => ex.sellCalls = 0 /\ ex.trades = 0

C4_Witness ==
    /\ lastFinished.pc = "Failed"
    /\ lastFinished.buyOrder = "null"
    /\ lastFinished.buyCalls = 1

\* C5: an execution whose buy leg succeeded and whose sell leg failed ends
\* PartiallyFailed, reported once at critical severity, having placed exactly
\* one buy and one sell order; no other outcome is reported critical.
C5_PartialFailure ==
    \A ex \in AllExecs :
        /\ (ex.buyOrder = "order" /\ ex.sellOrder = "null") =>
               /\ ex.pc = "PartiallyFailed"
               /\ ex.critical = 1
               /\ ex.buyCalls = 1
               /\ ex.sellCalls = 1
        /\ ex.pc = "PartiallyFailed" => ex.buyOrder = "order" /\ ex.sellOrder = "null"
        /\ ex.pc # "PartiallyFailed" => ex.critical = 0

C5_Witness ==
    /\ lastFinished.pc = "PartiallyFailed"
    /\ lastFinished.critical = 1
    /\ lastFinished.sellCalls = 1

\* C6: recordTrade is called exactly once by an execution that ends Completed,
\* and never by one that is running or that ends Failed or PartiallyFailed.
C6_TradeRecordedOnce ==
    \A ex \in AllExecs :
        /\ ex.pc = "Completed" =>
               ex.trades = 1 /\ ex.buyOrder = "order" /\ ex.sellOrder = "order"
        /\ ex.pc # "Completed" => ex.trades = 0

C6_Witness ==
    /\ lastFinished.pc = "Completed"
    /\ lastFinished.trades = 1

(***************************************************************************)
(* The circuit breaker of one venue (src/utils/errors.js)                  *)
(***************************************************************************)
\* The head of execute: an OPEN breaker whose resetTimeout has elapsed becomes
\* HALF_OPEN, an OPEN breaker whose resetTimeout has not elapsed throws
\* CIRCUIT_BREAKER_OPEN, and in every other case the operation is invoked.
Blocked(cb, t) == cb.state = "OPEN" /\ ~(t - cb.lastFailureTime >= resetTimeout)
Gate(cb, t) ==
    IF cb.state = "OPEN" /\ t - cb.lastFailureTime >= resetTimeout
    THEN [cb EXCEPT !.state = "HALF_OPEN"]
    ELSE cb

onSuccessAlwaysClose(cb) == [cb EXCEPT !.failureCount = 0, !.state = "CLOSED"]
onSuccess(cb) ==
    [cb EXCEPT !.failureCount = 0,
               !.state = IF cb.state = "HALF_OPEN" THEN "CLOSED" ELSE @]

onFailureAboveThreshold(cb, t) ==
    [cb EXCEPT !.failureCount = @ + 1, !.lastFailureTime = t,
               !.state = IF cb.failureCount + 1 > failureThreshold THEN "OPEN" ELSE @]
onFailure(cb, t) ==
    [cb EXCEPT !.failureCount = @ + 1, !.lastFailureTime = t,
               !.state = IF cb.failureCount + 1 >= failureThreshold THEN "OPEN" ELSE @]

Transition(from, to) == IF from = to THEN edges ELSE edges \cup {<<from, to>>}

\* The argument of the onStateChange call that execute, onSuccess and onFailure
\* make, "none" when they make no call
GateNotifies(cb, t) ==
    IF cb.state = "OPEN" /\ t - cb.lastFailureTime >= resetTimeout
    THEN "HALF_OPEN" ELSE "none"
onSuccessNotifies(cb) == IF cb.state = "HALF_OPEN" THEN "CLOSED" ELSE "none"
onFailureNotifies(cb) ==
    IF cb.failureCount + 1 >= failureThreshold THEN "OPEN" ELSE "none"

ExecuteCountsRejection(c) ==
    /\ callers[c].st = "idle"
    /\ IF Blocked(breaker, now)
       THEN /\ callers' = [callers EXCEPT ![c] =
                              [NoCall EXCEPT !.result = "CIRCUIT_BREAKER_OPEN"]]
            /\ breaker' = onFailure(breaker, now)
            /\ notified' = onFailureNotifies(breaker)
            /\ UNCHANGED edges
       ELSE /\ breaker' = Gate(breaker, now)
            /\ notified' = GateNotifies(breaker, now)
            /\ callers' = [callers EXCEPT ![c] =
                              [st |-> "running", admittedIn |-> breaker'.state,
                               result |-> "none"]]
            /\ edges' = Transition(breaker.state, breaker'.state)
    /\ UNCHANGED <<now, engineVars, consecutive, otherVars>>
\* breaker.execute(operation) up to `await operation()`
Execute(c) ==
    /\ callers[c].st = "idle"
    /\ IF Blocked(breaker, now)
       THEN /\ callers' = [callers EXCEPT ![c] =
                              [NoCall EXCEPT !.result = "CIRCUIT_BREAKER_OPEN"]]
            /\ notified' = "none"
            /\ UNCHANGED <<breaker, edges>>
       ELSE /\ breaker' = Gate(breaker, now)
            /\ notified' = GateNotifies(breaker, now)
            /\ callers' = [callers EXCEPT ![c] =
                              [st |-> "running", admittedIn |-> breaker'.state,
                               result |-> "none"]]
            /\ edges' = Transition(breaker.state, breaker'.state)
    /\ UNCHANGED <<now, engineVars, consecutive, otherVars>>

\* The operation of a call settles: onSuccess, or onFailure and the rethrow.
Settle(c, ok) ==
    /\ callers[c].st = "running"
    /\ breaker' = IF ok THEN onSuccess(breaker) ELSE onFailure(breaker, now)
    /\ notified' = IF ok THEN onSuccessNotifies(breaker) ELSE onFailureNotifies(breaker)
    /\ callers' = [callers EXCEPT ![c] =
                      [st |-> "idle", admittedIn |-> callers[c].admittedIn,
                       result |-> IF ok THEN "ok" ELSE "error"]]
    /\ consecutive' = IF ok THEN 0 ELSE consecutive + 1
    /\ edges' = Transition(breaker.state, breaker'.state)
    /\ UNCHANGED <<now, engineVars, otherVars>>

\* Time passes between the scan cycles that issue the calls.
Wait ==
    /\ now < MaxScans * SCAN_INTERVAL
    /\ now' = now + SCAN_INTERVAL
    /\ UNCHANGED <<engineVars, breakerVars, otherVars>>

InitCB ==
    /\ MAX_CONCURRENT_TRADES = 1
    /\ InitEngine
    /\ InitBreaker
    /\ InitOther

NextCB ==
    \/ \E c \in Callers : Execute(c)
    \/ \E c \in Callers, ok \in BOOLEAN : Settle(c, ok)
    \/ Wait

SpecCB == InitCB /\ [][NextCB]_vars

(***************************************************************************)
(* Claims about the circuit breaker, checked under SpecCB                  *)
(***************************************************************************)
Tripped ==
    /\ consecutive >= failureThreshold
    /\ now - breaker.lastFailureTime < resetTimeout

\* C7: after failureThreshold consecutive failed calls, a call made before
\* resetTimeout has elapsed since the last failure does not invoke its
\* operation and fails with CIRCUIT_BREAKER_OPEN.
C7_OpenBlocks ==
    [][Tripped =>
          \A c \in Callers :
              callers[c].st = "idle" =>
                  /\ callers'[c].st = "idle"
                  /\ callers'[c] # callers[c] =>
                         callers'[c].result = "CIRCUIT_BREAKER_OPEN"]_vars

C7_Witness ==
    /\ Tripped
    /\ breaker.state = "OPEN"
    /\ \E c \in Callers : callers[c].result = "CIRCUIT_BREAKER_OPEN"

Trials == {c \in Callers : callers[c].st = "running" /\ callers[c].admittedIn = "HALF_OPEN"}

\* C8: while the trial call of a HALF_OPEN breaker is in flight, no other call
\* invokes its operation.
C8_OneTrial == breaker.state = "HALF_OPEN" => Cardinality(Trials) <= 1

\* C9: when a call admitted while the breaker was HALF_OPEN succeeds, the
\* breaker is CLOSED with failure count 0 right afterwards; when it fails, the
\* breaker is OPEN with lastFailureTime reset right afterwards.
C9_TrialDecides ==
    [][\A c \in Callers :
          (callers[c].st = "running" /\ callers[c].admittedIn = "HALF_OPEN"
              /\ callers'[c].st = "idle") =>
              IF callers'[c].result = "ok"
              THEN breaker'.state = "CLOSED" /\ breaker'.failureCount = 0
              ELSE breaker'.state = "OPEN" /\ breaker'.lastFailureTime = now]_vars

AllowedEdges ==
    {<<"CLOSED", "OPEN">>, <<"OPEN", "HALF_OPEN">>,
     <<"HALF_OPEN", "CLOSED">>, <<"HALF_OPEN", "OPEN">>}

\* C10: the breaker's state changes only along CLOSED->OPEN, OPEN->HALF_OPEN,
\* HALF_OPEN->CLOSED and HALF_OPEN->OPEN.
C10_Edges ==
    [][breaker'.state # breaker.state =>
          <<breaker.state, breaker'.state>> \in AllowedEdges]_vars

\* The breaker has made each of the four transitions.
C10_Witness == edges = AllowedEdges

\* C32: a step of the breaker calls onStateChange exactly when it changes the
\* breaker's state, and then with the new state.
C32_NotifiedOnChange ==
    [][now' = now =>
          IF breaker'.state # breaker.state
          THEN notified' = breaker'.state
          ELSE notified' = "none"]_vars

\* C36: an OPEN breaker has a failure count of failureThreshold or more and a
\* CLOSED breaker has a failure count below failureThreshold.
C36_CountMatchesState ==
    /\ breaker.state = "OPEN" => breaker.failureCount >= failureThreshold
    /\ breaker.state = "CLOSED" => breaker.failureCount < failureThreshold

\* Caller c made a call in this step that the breaker rejected.
RejectedCall(c) ==
    /\ now' = now
    /\ callers[c].st = "idle"
    /\ callers'[c] = [NoCall EXCEPT !.result = "CIRCUIT_BREAKER_OPEN"]
    /\ \A d \in Callers \ {c} : callers'[d] = callers[d]

\* C37: a call that an OPEN breaker rejects leaves the breaker's state, failure
\* count and last-failure time as they were.
C37_RejectionLeavesBreaker ==
    [][\A c \in Callers : RejectedCall(c) => breaker' = breaker]_vars

\* A call was rejected some time after the failure that opened the breaker.
C37_Witness ==
    /\ breaker.state = "OPEN"
    /\ breaker.lastFailureTime < now
    /\ now < breaker.lastFailureTime + resetTimeout
    /\ notified = "none"
    /\ \E c \in Callers : callers[c].result = "CIRCUIT_BREAKER_OPEN"

(***************************************************************************)
(* The backoff executor withRetry (src/utils/errors.js), specification     *)
(* SpecRetry: one invocation, its options drawn from small sets            *)
(***************************************************************************)
Min(a, b) == IF a <= b THEN a ELSE b

\* The options of an invocation: the defaults and the values the venue
\* gateway passes (maxRetries 1 and 2, baseDelay 1000 and 2000), with a
\* maxDelay small enough for the cap to apply.
Options ==
    [maxRetries : 0..MaxRetries, baseDelay : {1000, 2000}, maxDelay : {3000, 10000},
     backoffFactor : 1..3]

Results == {"result"}
Errors == {"timeout", "rejected"}

\* The outcome of one attempt: the value the operation resolved to, or the
\* error it rejected with and what retryCondition(error, attempt) answers.
Resolved(r) == [ok |-> TRUE, value |-> r, retry |-> FALSE]
Rejected(e, retry) == [ok |-> FALSE, value |-> e, retry |-> retry]

\* for (let attempt = 0; attempt <= maxRetries; attempt++)
LoopContinues(inv) == inv.attempt <= inv.maxRetries

\* The head of the loop body: `await operation()` invokes the operation, and
\* past the last iteration `throw lastError`.
Iterate(inv) ==
    IF LoopContinues(inv)
    THEN [inv EXCEPT !.pc = "awaiting", !.calls = @ + 1]
    ELSE [inv EXCEPT !.pc = "thrown", !.thrown = inv.outcomes[Len(inv.outcomes)].value]

\* return result
AfterResolveNoReturn(inv, r) ==
    Iterate([inv EXCEPT !.outcomes = Append(@, Resolved(r)), !.result = r,
                        !.attempt = @ + 1])
AfterResolve(inv, r) ==
    [inv EXCEPT !.outcomes = Append(@, Resolved(r)), !.result = r, !.pc = "returned"]

\* if (attempt === maxRetries || !retryCondition(error, attempt)) throw error
GivesUpWhenExhaustedOnly(inv, retry) == inv.attempt = inv.maxRetries
GivesUp(inv, retry) == inv.attempt = inv.maxRetries \/ ~retry

\* Math.min(baseDelay * Math.pow(backoffFactor, attempt), maxDelay)
DelayUncapped(inv) == inv.baseDelay * (inv.backoffFactor ^ inv.attempt)
Delay(inv) == Min(inv.baseDelay * (inv.backoffFactor ^ inv.attempt), inv.maxDelay)

\* The catch block: the error is rethrown, or a timer of Delay is armed.
AfterReject(inv, e, retry) ==
    IF GivesUp(inv, retry)
    THEN [inv EXCEPT !.outcomes = Append(@, Rejected(e, retry)), !.pc = "thrown",
                     !.thrown = e]
    ELSE [inv EXCEPT !.outcomes = Append(@, Rejected(e, retry)), !.pc = "sleeping",
                     !.delays = Append(@, Delay(inv))]

\* withRetry(operation, options) up to its first suspension
withRetry ==
    /\ invocation.pc = "idle"
    /\ invocation' = Iterate(invocation)
    /\ UNCHANGED <<now, engineVars, breakerVars, detectVars, healthVars, laterVars>>

operationResolves(r) ==
    /\ invocation.pc = "awaiting"
    /\ invocation' = AfterResolve(invocation, r)
    /\ UNCHANGED <<now, engineVars, breakerVars, detectVars, healthVars, laterVars>>

operationRejects(e, retry) ==
    /\ invocation.pc = "awaiting"
    /\ invocation' = AfterReject(invocation, e, retry)
    /\ UNCHANGED <<now, engineVars, breakerVars, detectVars, healthVars, laterVars>>

\* The timer of the last delay fires: the clock has advanced by the delay, and
\* the loop increments attempt and iterates.
delayElapses ==
    /\ invocation.pc = "sleeping"
    /\ now' = now + invocation.delays[Len(invocation.delays)]
    /\ invocation' = Iterate([invocation EXCEPT !.attempt = @ + 1])
    /\ UNCHANGED <<engineVars, breakerVars, detectVars, healthVars, laterVars>>

InitRetry ==
    /\ MAX_CONCURRENT_TRADES = 1
    /\ InitEngine
    /\ InitBreaker
    /\ IdleDetector
    /\ IdleHealth
    /\ IdleCollect
    /\ IdleTrade
    /\ IdleStart
    /\ \E o \in Options :
           invocation = [NoInvocation EXCEPT !.maxRetries = o.maxRetries,
                                             !.baseDelay = o.baseDelay,
                                             !.maxDelay = o.maxDelay,
                                             !.backoffFactor = o.backoffFactor]

NextRetry ==
    \/ withRetry
    \/ \E r \in Results : operationResolves(r)
    \/ \E e \in Errors, retry \in BOOLEAN : operationRejects(e, retry)
    \/ delayElapses

SpecRetry == InitRetry /\ [][NextRetry]_vars

(***************************************************************************)
(* Claims about withRetry, checked under SpecRetry                         *)
(***************************************************************************)
RECURSIVE SumSeq(_)
SumSeq(q) == IF q = <<>> THEN 0 ELSE q[1] + SumSeq(Tail(q))

\* C11: one invocation of withRetry invokes the operation at most
\* maxRetries + 1 times; an attempt that succeeds is the last invocation, and
\* its result is what the invocation returns.
C11_AttemptsBounded ==
    /\ invocation.calls <= invocation.maxRetries + 1
    /\ \A i \in 1..Len(invocation.outcomes) :
           invocation.outcomes[i].ok =>
               /\ invocation.calls = i
               /\ Len(invocation.outcomes) = i
               /\ invocation.pc = "returned"
               /\ invocation.result = invocation.outcomes[i].value

\* The last permitted attempt, after at least two failures, succeeds.
C11_Witness ==
    /\ invocation.pc = "returned"
    /\ invocation.calls = invocation.maxRetries + 1
    /\ invocation.calls >= 3
    /\ invocation.result \in Results

\* C12: the delay waited before retry attempt n (n >= 1) is
\* min(baseDelay * backoffFactor^(n-1), maxDelay), nothing is waited before
\* the first attempt, and the time that has passed is the sum of the delays
\* that elapsed.
C12_BackoffDelays ==
    /\ \A n \in 1..Len(invocation.delays) :
           invocation.delays[n] =
               Min(invocation.baseDelay * (invocation.backoffFactor ^ (n - 1)),
                   invocation.maxDelay)
    /\ invocation.pc = "sleeping" =>
           /\ Len(invocation.delays) = invocation.calls
           /\ now = SumSeq(SubSeq(invocation.delays, 1, invocation.calls - 1))
    /\ invocation.pc \in {"awaiting", "returned", "thrown"} =>
           /\ Len(invocation.delays) = invocation.calls - 1
           /\ now = SumSeq(invocation.delays)

\* The second retry was delayed by the cap, the first by less than the cap.
C12_Witness ==
    /\ invocation.pc = "awaiting"
    /\ invocation.calls = 3
    /\ invocation.delays[1] = invocation.baseDelay
    /\ invocation.delays[1] < invocation.maxDelay
    /\ invocation.delays[2] = invocation.maxDelay
    /\ now = invocation.baseDelay + invocation.maxDelay

\* C13: an attempt that fails with an error the retry predicate rejects, or
\* that fails as attempt maxRetries + 1, ends the invocation: its error is
\* the one thrown, no delay follows it and the operation is not invoked again.
C13_GiveUpAtOnce ==
    \A i \in 1..Len(invocation.outcomes) :
        LET o == invocation.outcomes[i] IN
        (~o.ok /\ (~o.retry \/ i = invocation.maxRetries + 1)) =>
            /\ invocation.pc = "thrown"
            /\ invocation.thrown = o.value
            /\ invocation.calls = i
            /\ Len(invocation.outcomes) = i
            /\ Len(invocation.delays) = i - 1

\* A retry was made after a first error, and a second, different error that
\* the predicate rejects is thrown with retries left.
C13_Witness ==
    /\ invocation.pc = "thrown"
    /\ invocation.calls = 2
    /\ invocation.calls < invocation.maxRetries + 1
    /\ ~invocation.outcomes[2].retry
    /\ invocation.outcomes[1].value # invocation.outcomes[2].value
    /\ invocation.thrown = invocation.outcomes[2].value

(***************************************************************************)
(* The opportunity detector findAndExecuteArbitrageOpportunity             *)
(* (src/arbitrage/index.js), specification SpecDetect: the quote list and  *)
(* the threshold are drawn from small sets                                 *)
(***************************************************************************)
Prices == {990, 1000, 1002, 1015, 1018}
Thresholds == {50, 150, 200}

\* What scanPairAcrossExchanges pushes to priceData: a quote that passed
\* `bestBid <= 0 || bestAsk <= 0 || bestBid >= bestAsk`.
Quotes ==
    {q \in [exchange : SUPPORTED_EXCHANGES, bestBid : Prices, bestAsk : Prices] :
        q.bestBid < q.bestAsk}

\* One quote per venue at most, two quotes at least (priceData.length < 2
\* returns before the detector is called).
QuoteLists ==
    {l \in UNION {[1..n -> Quotes] : n \in 2..Cardinality(SUPPORTED_EXCHANGES)} :
        \A i, j \in DOMAIN l : i # j => l[i].exchange # l[j].exchange}

\* The comparators (a, b) => b.bestBid - a.bestBid and
\* (a, b) => a.bestAsk - b.bestAsk
compare(a, b, by) ==
    IF by = "bestBid" THEN b.bestBid - a.bestBid ELSE a.bestAsk - b.bestAsk

\* Array.prototype.sort is stable: an element moves before exactly those that
\* compare greater and those that compare equal and stood after it.
Rank(l, by, i) ==
    1 + Cardinality({j \in DOMAIN l :
                        \/ compare(l[j], l[i], by) < 0
                        \/ compare(l[j], l[i], by) = 0 /\ j < i})
sort(l, by) == [k \in DOMAIN l |-> l[CHOOSE i \in DOMAIN l : Rank(l, by, i) = k]]

\* if (percentageDiff <= ARBITRAGE_THRESHOLD) return, where percentageDiff is
\* (priceDiff / lowestAsk.bestAsk) * 100 and the threshold is in hundredths
AtOrBelowThresholdStrict(priceDiff, bestAsk, threshold) ==
    priceDiff * 100 * 100 < threshold * bestAsk
AtOrBelowThreshold(priceDiff, bestAsk, threshold) ==
    priceDiff * 100 * 100 <= threshold * bestAsk

\* A quotient that is kept exact: numerator and denominator
Ratio(num, den) == <<num, den>>

\* const opportunity = { symbol, buyExchange: lowestAsk.exchange, ... }
OpportunityAtOneVenue(symbol, highestBid, lowestAsk) ==
    [symbol |-> symbol,
     buyExchange |-> lowestAsk.exchange, sellExchange |-> lowestAsk.exchange,
     buyPrice |-> lowestAsk.bestAsk, sellPrice |-> highestBid.bestBid,
     priceDifference |-> highestBid.bestBid - lowestAsk.bestAsk,
     percentageDifference |->
         Ratio((highestBid.bestBid - lowestAsk.bestAsk) * 100, lowestAsk.bestAsk),
     potentialProfit |->
         Ratio((highestBid.bestBid - lowestAsk.bestAsk) * TRADE_AMOUNT,
               lowestAsk.bestAsk)]
OpportunityAtBid(symbol, highestBid, lowestAsk) ==
    [symbol |-> symbol,
     buyExchange |-> lowestAsk.exchange, sellExchange |-> highestBid.exchange,
     buyPrice |-> lowestAsk.bestBid, sellPrice |-> highestBid.bestBid,
     priceDifference |-> highestBid.bestBid - lowestAsk.bestAsk,
     percentageDifference |->
         Ratio((highestBid.bestBid - lowestAsk.bestAsk) * 100, lowestAsk.bestAsk),
     potentialProfit |->
         Ratio((highestBid.bestBid - lowestAsk.bestAsk) * TRADE_AMOUNT,
               lowestAsk.bestAsk)]
Opportunity(symbol, highestBid, lowestAsk) ==
    [symbol |-> symbol,
     buyExchange |-> lowestAsk.exchange, sellExchange |-> highestBid.exchange,
     buyPrice |-> lowestAsk.bestAsk, sellPrice |-> highestBid.bestBid,
     priceDifference |-> highestBid.bestBid - lowestAsk.bestAsk,
     percentageDifference |->
         Ratio((highestBid.bestBid - lowestAsk.bestAsk) * 100, lowestAsk.bestAsk),
     potentialProfit |->
         Ratio((highestBid.bestBid - lowestAsk.bestAsk) * TRADE_AMOUNT,
               lowestAsk.bestAsk)]

\* The detector returned before it built an opportunity; list is priceData as
\* the two sorts in place left it.
Returned(list) == [NoDetection EXCEPT !.called = TRUE, !.priceData = list]

\* The body of findAndExecuteArbitrageOpportunity: the second sort works on
\* the array as the first sort left it.
Detect(list, symbol, threshold) ==
    LET byBid == sort(list, "bestBid")
        highestBid == byBid[1]
        byAsk == sort(byBid, "bestAsk")
        lowestAsk == byAsk[1]
        priceDiff == highestBid.bestBid - lowestAsk.bestAsk
    IN  IF highestBid.exchange = lowestAsk.exchange
        THEN Returned(byAsk)
        ELSE IF AtOrBelowThreshold(priceDiff, lowestAsk.bestAsk, threshold)
        THEN Returned(byAsk)
        ELSE IF priceDiff <= 0
        THEN Returned(byAsk)
        ELSE [called |-> TRUE, priceData |-> byAsk,
              opportunity |-> Opportunity(symbol, highestBid, lowestAsk),
              recorded |-> 1,
              dispatch |-> Key(symbol, lowestAsk.exchange, highestBid.exchange)]

findAndExecuteArbitrageOpportunity(symbol) ==
    /\ ~detection.called
    /\ detection' = Detect(priceData, symbol, ARBITRAGE_THRESHOLD)
    /\ UNCHANGED <<now, engineVars, breakerVars, retryVars, healthVars, laterVars,
                   ARBITRAGE_THRESHOLD, priceData>>

InitDetect ==
    /\ MAX_CONCURRENT_TRADES = 1
    /\ InitEngine
    /\ InitBreaker
    /\ IdleRetry
    /\ IdleHealth
    /\ IdleCollect
    /\ IdleTrade
    /\ IdleStart
    /\ ARBITRAGE_THRESHOLD \in Thresholds
    /\ priceData \in QuoteLists
    /\ detection = NoDetection

NextDetect ==
    \E symbol \in Symbols : findAndExecuteArbitrageOpportunity(symbol)

SpecDetect == InitDetect /\ [][NextDetect]_vars

(***************************************************************************)
(* Claims about the detector, checked under SpecDetect                     *)
(***************************************************************************)
MaxBid(list) == CHOOSE b \in {list[i].bestBid : i \in DOMAIN list} :
                    \A i \in DOMAIN list : list[i].bestBid <= b
MinAsk(list) == CHOOSE a \in {list[i].bestAsk : i \in DOMAIN list} :
                    \A i \in DOMAIN list : a <= list[i].bestAsk
Produced == detection.called /\ detection.opportunity # NoOpportunity

\* C14: from a list of two or more valid quotes the detector never produces
\* an opportunity whose buy venue is its sell venue.
C14_CrossVenue ==
    Produced => detection.opportunity.buyExchange # detection.opportunity.sellExchange

\* An opportunity was produced from the quotes of three venues.
C14_Witness ==
    /\ Produced
    /\ Len(priceData) = 3
    /\ detection.opportunity.buyExchange \in SUPPORTED_EXCHANGES
    /\ detection.opportunity.sellExchange \in SUPPORTED_EXCHANGES

ScenarioA ==
    <<[exchange |-> "binance", bestBid |-> 1000, bestAsk |-> 1002],
      [exchange |-> "kraken", bestBid |-> 1015, bestAsk |-> 1018]>>

\* C16: an opportunity buys at the minimum ask, at the venue of a quote that
\* has it, and sells at the maximum bid, at the venue of a quote that has it;
\* its spread is that bid minus that ask and its estimated profit is
\* spread * (TRADE_AMOUNT / buy price).  With the quotes (100, 100.2) and
\* (101.5, 101.8) and threshold 0.5 it buys at the first venue at 100.2 and
\* sells at the second at 101.5.
C16_BestPrices ==
    /\ Produced =>
           LET o == detection.opportunity IN
           /\ o.buyPrice = MinAsk(priceData)
           /\ o.sellPrice = MaxBid(priceData)
           /\ \E i \in DOMAIN priceData :
                  priceData[i].exchange = o.buyExchange /\ priceData[i].bestAsk = o.buyPrice
           /\ \E i \in DOMAIN priceData :
                  priceData[i].exchange = o.sellExchange /\ priceData[i].bestBid = o.sellPrice
           /\ o.priceDifference = o.sellPrice - o.buyPrice
           /\ o.potentialProfit = Ratio(o.priceDifference * TRADE_AMOUNT, o.buyPrice)
           /\ detection.recorded = 1
           /\ detection.dispatch = Key(o.symbol, o.buyExchange, o.sellExchange)
    /\ (detection.called /\ priceData = ScenarioA /\ ARBITRAGE_THRESHOLD = 50) =>
           /\ Produced
           /\ detection.opportunity.buyExchange = "binance"
           /\ detection.opportunity.buyPrice = 1002
           /\ detection.opportunity.sellExchange = "kraken"
           /\ detection.opportunity.sellPrice = 1015

\* Scenario A has been detected.
C16_Witness ==
    /\ Produced
    /\ priceData = ScenarioA
    /\ ARBITRAGE_THRESHOLD = 50
    /\ detection.opportunity.percentageDifference = Ratio(1300, 1002)

\* The first quote of the input list that has the maximum bid / minimum ask
FirstWithMaxBid(list) ==
    list[CHOOSE i \in DOMAIN list :
            /\ list[i].bestBid = MaxBid(list)
            /\ \A j \in DOMAIN list : list[j].bestBid = MaxBid(list) => i <= j]
FirstWithMinAsk(list) ==
    list[CHOOSE i \in DOMAIN list :
            /\ list[i].bestAsk = MinAsk(list)
            /\ \A j \in DOMAIN list : list[j].bestAsk = MinAsk(list) => i <= j]

\* C17: among the venues that share the maximum bid, and among those that
\* share the minimum ask, the opportunity names the one that stands first in
\* the input list.
C17_TieBreakInputOrder ==
    Produced =>
        /\ detection.opportunity.sellExchange = FirstWithMaxBid(priceData).exchange
        /\ detection.opportunity.buyExchange = FirstWithMinAsk(priceData).exchange

(***************************************************************************)
(* The venue health tracker and the head of the scan cycle                 *)
(* (src/arbitrage/index.js), specification SpecHealth.  The quotes a cycle *)
(* collects go to the detector, which SpecDetect covers.                   *)
(***************************************************************************)
ScanPairs == {"BTC/USDT"}

\* Time passes in steps of half the staleness window, up to one step past it.
HealthStep == healthThreshold \div 2
HealthHorizon == healthThreshold + HealthStep

\* startArbitrageScanner: exchangeHealth.set(exchangeId, { healthy: true,
\* lastError: null, errorCount: 0, lastSuccessfulScan: Date.now() })
NewHealth(t) == [healthy |-> TRUE, errorCount |-> 0, lastSuccessfulScan |-> t]

\* The loop of scanForArbitrageOpportunities that fills healthyExchanges
healthyExchangesUnfiltered(health) == DOMAIN health
healthyExchanges(health) == {e \in DOMAIN health : health[e].healthy}

\* The fetches scanPairAcrossExchanges issues, one per exchange it is given
\* and pair; began is the set of the venues whose flag was true at that time.
Fetches(exchanges, began) ==
    {[exchange |-> e, symbol |-> s, began |-> began] : e \in exchanges, s \in ScanPairs}

\* One flag-true venue's health after a quote that passed the validation
onQuote(h, t) ==
    [h EXCEPT !.lastSuccessfulScan = t, !.healthy = TRUE,
              !.errorCount = IF h.healthy THEN @ ELSE 0]

\* The catch block of the per-exchange fetch
onErrorNeverUnhealthy(h) == [h EXCEPT !.errorCount = @ + 1]
onError(h) ==
    [h EXCEPT !.errorCount = @ + 1,
              !.healthy = IF h.errorCount + 1 >= maxErrorCount THEN FALSE ELSE @]

\* What the awaited fetchOrderBook brings: "quote" is an order book whose best
\* bid and ask pass the validation, "invalid" one whose prices do not,
\* "failed" is null (fetchOrderBook catches every error of the venue call,
\* of withRetry and of the breaker and returns null), "malformed" an order
\* book whose first level cannot be indexed, which throws in the caller.
FetchOutcomes == {"quote", "invalid", "failed", "malformed"}

\* One venue misbehaves; the fetches from the others bring quotes.
Flaky == {"binance"}
OutcomesOf(e) == IF e \in Flaky THEN FetchOutcomes ELSE {"quote"}

AfterFetch(h, outcome, t) ==
    CASE outcome = "quote" -> onQuote(h, t)
      [] outcome = "malformed" -> onError(h)
      [] OTHER -> h

\* monitorExchangeHealth, for one venue
monitorStaleAtThreshold(h, t) ==
    IF t - h.lastSuccessfulScan >= healthThreshold /\ h.healthy
    THEN [h EXCEPT !.healthy = FALSE]
    ELSE IF t - h.lastSuccessfulScan < healthThreshold /\ ~h.healthy
    THEN [h EXCEPT !.healthy = TRUE, !.errorCount = 0]
    ELSE h
monitor(h, t) ==
    IF t - h.lastSuccessfulScan > healthThreshold /\ h.healthy
    THEN [h EXCEPT !.healthy = FALSE]
    ELSE IF t - h.lastSuccessfulScan <= healthThreshold /\ ~h.healthy
    THEN [h EXCEPT !.healthy = TRUE, !.errorCount = 0]
    ELSE h

\* One scan cycle up to its first suspension: the ceiling check, the filter
\* of the healthy venues and, for two or more of them, the fetches.
scanForArbitrageOpportunities ==
    LET exchanges == healthyExchanges(exchangeHealth)
        began == {e \in DOMAIN exchangeHealth : exchangeHealth[e].healthy}
    IN  /\ BagCardinality(pending) + Cardinality(Fetches(exchanges, began)) <= MaxPending
        /\ pending' =
               IF size(activeArbitrageOps) >= MAX_CONCURRENT_TRADES
                  \/ Cardinality(exchanges) < 2
               THEN pending
               ELSE pending (+) SetToBag(Fetches(exchanges, began))
        /\ swept' = FALSE
        /\ UNCHANGED <<now, engineVars, breakerVars, retryVars, detectVars, laterVars,
                       exchangeHealth, failures>>

\* The fetch of one venue settles and the per-exchange callback runs on.
fetchSettles(f, outcome) ==
    /\ outcome \in OutcomesOf(f.exchange)
    /\ pending' = pending (-) SetToBag({f})
    /\ exchangeHealth' =
           [exchangeHealth EXCEPT ![f.exchange] = AfterFetch(@, outcome, now)]
    /\ failures' =
           [failures EXCEPT ![f.exchange] =
               CASE outcome = "quote" -> 0
                 [] outcome = "invalid" -> @
                 [] OTHER -> Min(@ + 1, maxErrorCount)]
    /\ swept' = FALSE
    /\ UNCHANGED <<now, engineVars, breakerVars, retryVars, detectVars, laterVars>>

\* setInterval(() => { monitorExchangeHealth(); cleanupStaleOperations(); }, 30000)
healthSweep ==
    /\ exchangeHealth' = [e \in DOMAIN exchangeHealth |-> monitor(exchangeHealth[e], now)]
    /\ activeArbitrageOps' =
           [k \in (DOMAIN activeArbitrageOps) \ StaleKeys(activeArbitrageOps, now)
              |-> activeArbitrageOps[k]]
    /\ swept' = TRUE
    /\ UNCHANGED <<MAX_CONCURRENT_TRADES, now, execs, timers, lastAttempt, lastFinished,
                   breakerVars, retryVars, detectVars, laterVars, pending, failures>>

Pass ==
    /\ now < HealthHorizon
    /\ now' = now + HealthStep
    /\ swept' = FALSE
    /\ UNCHANGED <<engineVars, breakerVars, retryVars, detectVars, laterVars,
                   exchangeHealth, pending, failures>>

InitHealth ==
    /\ MAX_CONCURRENT_TRADES = 1
    /\ InitEngine
    /\ InitBreaker
    /\ IdleRetry
    /\ IdleDetector
    /\ IdleCollect
    /\ IdleTrade
    /\ IdleStart
    /\ exchangeHealth = [e \in SUPPORTED_EXCHANGES |-> NewHealth(now)]
    /\ pending = EmptyBag
    /\ failures = [e \in SUPPORTED_EXCHANGES |-> 0]
    /\ swept = FALSE

NextHealth ==
    \/ scanForArbitrageOpportunities
    \/ \E f \in BagToSet(pending), outcome \in FetchOutcomes : fetchSettles(f, outcome)
    \/ healthSweep
    \/ Pass

SpecHealth == InitHealth /\ [][NextHealth]_vars

(***************************************************************************)
(* Claims about the health tracker, checked under SpecHealth               *)
(***************************************************************************)
\* C18: every quote fetch of a scan cycle goes to a venue whose healthy flag
\* was true when the cycle began; a venue whose flag was false then is not
\* fetched from in that cycle.
C18_OnlyHealthyFetched ==
    \A f \in BagToSet(pending) : f.exchange \in f.began

\* One of three venues is unhealthy and a cycle queries the two others.
C18_Witness ==
    \E e \in DOMAIN exchangeHealth :
        /\ ~exchangeHealth[e].healthy
        /\ {f.exchange : f \in BagToSet(pending)} = (DOMAIN exchangeHealth) \ {e}
        /\ \A f \in BagToSet(pending) : f.began = (DOMAIN exchangeHealth) \ {e}

\* C19: the step in which a venue's third consecutive failed quote fetch
\* occurs leaves the venue unhealthy, and the outcome of a fetch turns a
\* venue unhealthy only as the third failure in a row.
C19_ThirdFailureMarks ==
    [][\A e \in DOMAIN failures :
          /\ (failures[e] < maxErrorCount /\ failures'[e] = maxErrorCount)
                 => ~exchangeHealth'[e].healthy
          /\ (exchangeHealth[e].healthy /\ ~exchangeHealth'[e].healthy /\ ~swept')
                 => failures'[e] = maxErrorCount]_vars

\* C20: right after the health sweep a tracked venue is healthy if and only
\* if its last successful scan is at most healthThreshold old.
C20_SweepFreshIffHealthy ==
    swept =>
        \A e \in DOMAIN exchangeHealth :
            exchangeHealth[e].healthy <=>
                now - exchangeHealth[e].lastSuccessfulScan <= healthThreshold

\* After a sweep one venue is exactly healthThreshold old and healthy, and
\* another is older and unhealthy.
C20_Witness ==
    /\ swept
    /\ \E e \in DOMAIN exchangeHealth :
           /\ now - exchangeHealth[e].lastSuccessfulScan = healthThreshold
           /\ exchangeHealth[e].healthy
    /\ \E e \in DOMAIN exchangeHealth :
           /\ now - exchangeHealth[e].lastSuccessfulScan > healthThreshold
           /\ ~exchangeHealth[e].healthy


-----------------------------------------------------------------------------
(* The quote collection of one scan cycle: scanForArbitrageOpportunities    *)
(* fans out over the trading pairs, scanPairAcrossExchanges over the        *)
(* exchanges it is given; each fetch settles on its own and each pair is    *)
(* joined on its own.  Prices are JavaScript values, as the order book of   *)
(* the venue client carries them.                                            *)

\* Object.keys of the exchanges object, in the order of SUPPORTED_EXCHANGES
ExchangeOrder == <<"binance", "coinbase", "kraken">>

\* exchange.markets: the pairs each venue lists
markets == [e \in SUPPORTED_EXCHANGES |-> IF e = "kraken" THEN {"BTC/USDT"} ELSE Symbols]

\* JavaScript values: a number, the numbers NaN and Infinity, a text
Num(n) == [type |-> "number", nan |-> FALSE, inf |-> FALSE, n |-> n]
NaN == [type |-> "number", nan |-> TRUE, inf |-> FALSE, n |-> 0]
Infinity == [type |-> "number", nan |-> FALSE, inf |-> TRUE, n |-> 0]
Text == [type |-> "string", nan |-> FALSE, inf |-> FALSE, n |-> 0]

typeof(v) == v.type
\* v <= 0 and a >= b on numbers: every comparison with NaN is false
AtMostZero(v) == ~v.nan /\ ~v.inf /\ v.n <= 0
AtLeast(a, b) == ~a.nan /\ ~b.nan /\ (a.inf \/ (~b.inf /\ a.n >= b.n))

\* The condition under which scanPairAcrossExchanges drops an order book
InvalidPriceData(bestBid, bestAsk) ==
    \/ typeof(bestBid) # "number"
    \/ typeof(bestAsk) # "number"
    \/ AtMostZero(bestBid)
    \/ AtMostZero(bestAsk)
    \/ AtLeast(bestBid, bestAsk)

\* What one fetch has brought: "none" no fetch was issued, "pending" it has
\* not settled, "null" fetchOrderBook returned null, "throws" the first
\* level of the book could not be read, "book" best bid and best ask.
Fetched(state, bestBid, bestAsk) == [state |-> state, bestBid |-> bestBid, bestAsk |-> bestAsk]
NoBook(state) == Fetched(state, Num(0), Num(0))

\* The order books a misbehaving venue may send, and the one of a sound venue
FlakyBooks ==
    {Fetched("book", Num(100), Num(101)), Fetched("book", Num(101), Num(100)),
     Fetched("book", Num(100), Num(100)), Fetched("book", Num(0), Num(101)),
     Fetched("book", Num(100), Num(0 - 1)), Fetched("book", Text, Num(101)),
     Fetched("book", NaN, Num(101)), Fetched("book", Num(100), NaN),
     Fetched("book", Num(100), Infinity)}
SoundBooks == {Fetched("book", Num(102), Num(103))}
Returns == FlakyBooks \cup SoundBooks \cup {NoBook("null"), NoBook("throws")}
ReturnsOf(e) ==
    IF e \in Flaky THEN FlakyBooks \cup {NoBook("null"), NoBook("throws")}
    ELSE SoundBooks \cup {NoBook("null")}

\* The class of a settled fetch, as the health bookkeeping sees it
OutcomeClass(r) ==
    CASE r.state = "null" -> "failed"
      [] r.state = "throws" -> "malformed"
      [] InvalidPriceData(r.bestBid, r.bestAsk) -> "invalid"
      [] OTHER -> "quote"

\* The value the per-exchange callback returns: a quote or null
IsQuote(r) == r.state = "book" /\ ~InvalidPriceData(r.bestBid, r.bestAsk)

\* The loop over the settled results that fills priceData, in exchange order
CollectedUnlessRejected(results) ==
    IF \E e \in DOMAIN results : results[e].state \in {"null", "throws"}
    THEN <<>>
    ELSE LET from == SelectSeq(ExchangeOrder, LAMBDA e : IsQuote(results[e]))
         IN  [i \in 1..Len(from) |->
                 [exchange |-> from[i], bestBid |-> results[from[i]].bestBid,
                  bestAsk |-> results[from[i]].bestAsk]]
Collected(results) ==
    LET from == SelectSeq(ExchangeOrder, LAMBDA e : IsQuote(results[e]))
    IN  [i \in 1..Len(from) |->
            [exchange |-> from[i], bestBid |-> results[from[i]].bestBid,
             bestAsk |-> results[from[i]].bestAsk]]

\* One scan cycle up to its first suspension: the ceiling check, the filter
\* of the healthy venues, and for every pair a fetch from every venue it was
\* given that lists the pair.
SkipsAtCeilingOnly(ops, exchanges) == size(ops) >= MAX_CONCURRENT_TRADES
Skips(ops, exchanges) ==
    size(ops) >= MAX_CONCURRENT_TRADES \/ Cardinality(exchanges) < 2

scanCycle ==
    LET exchanges == healthyExchanges(exchangeHealth)
        skip == Skips(activeArbitrageOps, exchanges)
        issued == {<<s, e>> \in Symbols \X exchanges : s \in markets[e]}
    IN  /\ scan.pc = "idle"
        /\ scan' =
               IF skip
               THEN [scan EXCEPT !.pc = "done"]
               ELSE [scan EXCEPT
                       !.pc = "scanning",
                       !.exchanges = exchanges,
                       !.queried = issued,
                       !.results = [s \in Symbols |-> [e \in SUPPORTED_EXCHANGES |->
                                      IF <<s, e>> \in issued THEN NoBook("pending")
                                      ELSE NoBook("none")]],
                       !.status = [s \in Symbols |-> "collecting"]]
        /\ UNCHANGED <<now, engineVars, breakerVars, retryVars, detectVars, healthVars,
                       tradeVars, startVars>>

\* The fetch of one pair from one venue settles and the per-exchange
\* callback runs to its end.
fetchOrderBookReturns(s, e, r) ==
    /\ scan.pc = "scanning"
    /\ scan.results[s][e].state = "pending"
    /\ r \in ReturnsOf(e)
    /\ scan' = [scan EXCEPT !.results[s][e] = r]
    /\ exchangeHealth' =
           [exchangeHealth EXCEPT ![e] = AfterFetch(@, OutcomeClass(r), now)]
    /\ UNCHANGED <<now, engineVars, breakerVars, retryVars, detectVars,
                   pending, failures, swept, tradeVars, startVars>>

\* The pairs whose scan has come to its end
Settled(status) == {s \in DOMAIN status : status[s] # "collecting"}

\* All fetches of one pair have settled: the join, the filter, and with two
\* quotes or more the call of the detector, which may throw.
pairJoined(s, throws) ==
    LET list == Collected(scan.results[s])
        status == IF Len(list) < 2 THEN "insufficient"
                  ELSE IF throws THEN "failed" ELSE "detected"
    IN  /\ scan.pc = "scanning"
        /\ scan.status[s] = "collecting"
        /\ \A e \in SUPPORTED_EXCHANGES : scan.results[s][e].state # "pending"
        /\ Len(list) < 2 => ~throws
        /\ scan' =
               [scan EXCEPT
                  !.status[s] = status,
                  !.priceData[s] = list,
                  !.scanErrors[s] = IF status = "failed" THEN @ + 1 ELSE @,
                  !.pc = IF Settled(scan.status) \cup {s} = Symbols THEN "done" ELSE @]
        /\ UNCHANGED <<now, engineVars, breakerVars, retryVars, detectVars, healthVars,
                       tradeVars, startVars>>

\* The cycle begins with no ActiveOperation entry, or with the entry of one
\* execution that is running, which is the ceiling of one.
InitCollect ==
    /\ MAX_CONCURRENT_TRADES = 1
    /\ now = 0
    /\ \E busy \in BOOLEAN :
           LET key == Key("BTC/USDT", "kraken", "binance") IN
           /\ activeArbitrageOps = IF busy THEN set(<<>>, key, now) ELSE <<>>
           /\ execs = IF busy THEN SetToBag({NewExec(key)}) ELSE EmptyBag
    /\ timers = EmptyBag
    /\ lastAttempt = NoAttempt
    /\ lastFinished = NoExec
    /\ InitBreaker
    /\ IdleRetry
    /\ IdleDetector
    /\ IdleTrade
    /\ IdleStart
    /\ exchangeHealth \in
           [SUPPORTED_EXCHANGES ->
               {NewHealth(now), [healthy |-> FALSE, errorCount |-> maxErrorCount,
                                 lastSuccessfulScan |-> now]}]
    /\ pending = EmptyBag
    /\ failures = <<>>
    /\ swept = FALSE
    /\ scan = [NoScan EXCEPT !.priceData = [s \in Symbols |-> <<>>],
                             !.scanErrors = [s \in Symbols |-> 0]]

NextCollect ==
    \/ scanCycle
    \/ \E s \in Symbols, e \in SUPPORTED_EXCHANGES, r \in Returns :
           fetchOrderBookReturns(s, e, r)
    \/ \E s \in Symbols, throws \in BOOLEAN : pairJoined(s, throws)

SpecCollect == InitCollect /\ [][NextCollect]_vars

\* The lists the detector was called with in this cycle
PassedOn == {scan.priceData[s] : s \in {p \in DOMAIN scan.status : scan.status[p] \in {"detected", "failed"}}}

\* A price that is a positive number
Positive(v) == typeof(v) = "number" /\ ~v.nan /\ (v.inf \/ v.n > 0)

\* C21: every quote passed to the detector has a positive bid, a positive
\* ask, and its bid below its ask.
C21_PassedQuotesValid ==
    \A list \in PassedOn : \A i \in 1..Len(list) :
        /\ Positive(list[i].bestBid)
        /\ Positive(list[i].bestAsk)
        /\ ~AtLeast(list[i].bestBid, list[i].bestAsk)

\* C22: in a cycle that scans, a fetch was issued for every pair from every
\* healthy venue that lists it, and whatever the other fetches of the pair
\* and the scans of the other pairs came to, every venue's valid quote is in
\* the list collected for its pair.
C22_FailuresIsolated ==
    scan.pc \in {"scanning", "done"} /\ scan.exchanges # {} =>
        /\ \A s \in Symbols, e \in scan.exchanges :
               s \in markets[e] => <<s, e>> \in scan.queried
        /\ \A s \in Settled(scan.status), e \in SUPPORTED_EXCHANGES :
               IsQuote(scan.results[s][e]) =>
                   \E i \in 1..Len(scan.priceData[s]) :
                       /\ scan.priceData[s][i].exchange = e
                       /\ scan.priceData[s][i].bestBid = scan.results[s][e].bestBid
                       /\ scan.priceData[s][i].bestAsk = scan.results[s][e].bestAsk
        /\ scan.pc = "done" => Settled(scan.status) = Symbols

\* A cycle has ended in which the scan of one pair failed, and the detector
\* was called for another pair although one of its fetches had failed.
C22_Witness ==
    /\ scan.pc = "done"
    /\ scan.exchanges # {}
    /\ \E s, t \in Symbols :
           /\ scan.status[s] = "failed"
           /\ scan.status[t] = "detected"
           /\ \E e \in SUPPORTED_EXCHANGES : scan.results[t][e].state \in {"null", "throws"}
           /\ Len(scan.priceData[t]) = 2

-----------------------------------------------------------------------------
(* The cooldown that follows an execution, under the engine specification.  *)

\* The keys whose execution has ended and whose cooldown has not yet elapsed
CoolingDown == {t.key : t \in {u \in BagToSet(timers) : u.due > now}}

\* C23: while the cooldown that follows an execution of a key has not
\* elapsed, no dispatch of that key is admitted.
C23_NoDispatchInCooldown ==
    [][\A k \in CoolingDown :
          ~(~has(activeArbitrageOps, k) /\ has(activeArbitrageOps', k))]_vars

-----------------------------------------------------------------------------
(* The engine with its timers scheduled: the interval of the stale sweep    *)
(* keeps firing, a cooldown timer that is due fires, and time passes.       *)
(* Nothing is assumed of the venue calls: an execution may never end.       *)

\* Dispatches are watched up to LastDispatch; the clock runs on until an
\* entry inserted then is older than the stale threshold.
LastDispatch == Cooldown
SweepHorizon == LastDispatch + staleThreshold + Cooldown

DispatchEarly(symbol, buy, sell) ==
    /\ now <= LastDispatch
    /\ TryDispatch(symbol, buy, sell)

\* Time passes; a cooldown timer that is due fires before the clock moves on.
TickOn ==
    /\ now < SweepHorizon
    /\ \A t \in BagToSet(timers) : t.due > now
    /\ now' = now + Cooldown
    /\ lastAttempt' = NoAttempt
    /\ lastFinished' = NoExec
    /\ UNCHANGED <<MAX_CONCURRENT_TRADES, activeArbitrageOps, execs, timers, breakerVars, otherVars>>

TimerFires == \E t \in BagToSet(timers) : CooldownFires(t)

InitSweep ==
    /\ MAX_CONCURRENT_TRADES = 1
    /\ InitEngine
    /\ InitBreaker
    /\ InitOther

NextSweep ==
    \/ \E s \in Symbols, b \in Venues, v \in Venues : DispatchEarly(s, b, v)
    \/ \E ex \in BagToSet(execs), order \in Orders : BuyReturns(ex, order)
    \/ \E ex \in BagToSet(execs), order \in Orders : SellReturns(ex, order)
    \/ TimerFires
    \/ cleanupStaleOperations
    \/ TickOn

SpecSweep ==
    /\ InitSweep
    /\ [][NextSweep]_vars
    /\ WF_vars(TickOn)
    /\ WF_vars(TimerFires)
    /\ WF_vars(cleanupStaleOperations)

\* C24: every entry of activeArbitrageOps is removed in the end, whether or
\* not its execution ever ends.
C24_EntryRemoved ==
    \A k \in Keys : has(activeArbitrageOps, k) ~> ~has(activeArbitrageOps, k)

\* The stale sweep has removed the entry of an execution that is still
\* running.
C24_Witness ==
    /\ now > staleThreshold
    /\ \E ex \in BagToSet(execs) :
           /\ ~has(activeArbitrageOps, ex.key)
           /\ \A t \in BagToSet(timers) : t.key # ex.key

-----------------------------------------------------------------------------
(* One opportunity from its dispatch to the end of its execution:           *)
(* executeArbitrageWithRecovery, executeArbitrage with its validation, and  *)
(* executeBuy / executeSell with the trading flag, the market checks, the   *)
(* venue's breaker and the retried placement call.  The two persistence     *)
(* calls are started and never awaited.                                      *)

Legs == {"buy", "sell"}
VenueOf == [buy |-> "kraken", sell |-> "binance"]

\* maxRetries of the withRetry inside executeBuy and executeSell
placementRetries == 1

\* A symbol as a JavaScript value: a string of characters, or undefined
Str(text) == [type |-> "string", text |-> text]
Undefined == [type |-> "undefined", text |-> <<>>]
UpperCase == {"B", "T", "U"}

\* /^[A-Z]+\/[A-Z]+$/
MatchesBaseQuote(text) ==
    \E i \in 1..Len(text) :
        /\ text[i] = "/"
        /\ 1 < i /\ i < Len(text)
        /\ \A j \in (1..Len(text)) \ {i} : text[j] \in UpperCase

\* The validators return true or throw; TRUE here is "does not throw".
isValidSymbol(symbol) ==
    /\ symbol.type = "string"
    /\ symbol.text # <<>>
    /\ MatchesBaseQuote(symbol.text)

isFinite(v) == typeof(v) = "number" /\ ~v.nan /\ ~v.inf
isValidAmount(amount) ==
    ~(typeof(amount) # "number" \/ AtMostZero(amount) \/ ~isFinite(amount))

\* if (!exchange || !exchange.id)
Exchange(id) == [kind |-> "object", id |-> id]
NullExchange == [kind |-> "null", id |-> ""]
isValidExchange(exchange) == ~(exchange.kind = "null" \/ exchange.id = "")

\* if (!opportunity || typeof opportunity.buyPrice !== 'number' || opportunity.buyPrice <= 0)
OpportunityOf(buyPrice, sellPrice) ==
    [kind |-> "object", buyPrice |-> buyPrice, sellPrice |-> sellPrice]
NullOpportunity == [kind |-> "null", buyPrice |-> Num(0), sellPrice |-> Num(0)]
isValidOpportunity(opportunity) ==
    ~(\/ opportunity.kind = "null"
      \/ typeof(opportunity.buyPrice) # "number"
      \/ AtMostZero(opportunity.buyPrice))

\* amount / opportunity.buyPrice, for a positive finite amount and a buy
\* price that passed the test above; the inputs divide without remainder.
baseAmount(amount, buyPrice) ==
    IF buyPrice.nan THEN NaN
    ELSE IF buyPrice.inf THEN Num(0)
    ELSE Num(amount.n \div buyPrice.n)

\* The validation at the head of executeArbitrage does not throw
ValidInput(input) ==
    /\ isValidSymbol(input.symbol)
    /\ isValidAmount(input.amount)
    /\ isValidExchange(input.buyExchange)
    /\ isValidExchange(input.sellExchange)
    /\ isValidOpportunity(input.opportunity)
    /\ LET base == baseAmount(input.amount, input.opportunity.buyPrice)
       IN  ~(~isFinite(base) \/ AtMostZero(base))

SymbolInputs ==
    {Str(<<"B", "T", "/", "U">>), Str(<<"b", "t", "/", "U">>), Str(<<"B", "T", "U">>),
     Str(<<"B", "/">>), Str(<<>>), Undefined}
AmountInputs == {Num(100), Num(0), Num(0 - 100), NaN, Infinity, Text}
ExchangeInputs(leg) == {Exchange(VenueOf[leg]), Exchange(""), NullExchange}
OpportunityInputs ==
    {OpportunityOf(Num(50), Num(51)), NullOpportunity,
     OpportunityOf(Text, Num(51)), OpportunityOf(Num(0), Num(51)),
     OpportunityOf(NaN, Num(51)), OpportunityOf(Infinity, Num(51)),
     OpportunityOf(Num(50), NaN)}
Inputs ==
    [symbol : SymbolInputs, amount : AmountInputs, buyExchange : ExchangeInputs("buy"),
     sellExchange : ExchangeInputs("sell"), opportunity : OpportunityInputs]

\* What the calls find around them: process.env.ENABLE_TRADING, and whether
\* the venue lists the pair and the market is active.
Envs ==
    [ENABLE_TRADING : {"true", "false", "TRUE"},
     listed : [Legs -> BOOLEAN], active : [Legs -> BOOLEAN]]
LiveEnv ==
    [ENABLE_TRADING |-> "true", listed |-> [l \in Legs |-> TRUE],
     active |-> [l \in Legs |-> TRUE]]

\* A breaker that is closed, one that has just opened
ClosedBreaker == [state |-> "CLOSED", failureCount |-> 0, lastFailureTime |-> Null]
OpenBreaker(t) == [state |-> "OPEN", failureCount |-> failureThreshold, lastFailureTime |-> t]

\* The errors of the placement call by what their message includes, and the
\* other two ways the call settles: an order, a response without an id.
PlacementOutcomes ==
    {"order", "no id", "timeout", "insufficient funds", "timeout fetching balance",
     "rejected"}
IncludesTimeout(e) == e \in {"timeout", "timeout fetching balance"}
IncludesFunds(e) == e \in {"insufficient funds", "timeout fetching balance"}

\* retryCondition of the placement's withRetry
retryConditionOnAnyTimeout(e) == IncludesTimeout(e)
retryCondition(e) == IncludesTimeout(e) /\ ~IncludesFunds(e)

LegReturned(leg, value) == [leg |-> leg, state |-> "returned", attempt |-> 0, value |-> value]

\* executeBuy / executeSell up to the first suspension: the simulated order
\* when trading is not enabled, null when the market is missing or inactive
\* or the breaker blocks, else the first invocation of the placement call.
EnterLegAlwaysLive(t, leg) ==
    LET cb == t.breakers[leg] IN
    IF ~(t.env.listed[leg] /\ t.env.active[leg]) \/ Blocked(cb, now)
    THEN [t EXCEPT !.calls[leg] = @ + 1, !.call = LegReturned(leg, "null")]
    ELSE [t EXCEPT !.calls[leg] = @ + 1,
                   !.breakers[leg] = Gate(cb, now),
                   !.placed[leg] = Append(@, "pending"),
                   !.call = [leg |-> leg, state |-> "placing", attempt |-> 0,
                             value |-> "none"]]
EnterLeg(t, leg) ==
    LET cb == t.breakers[leg] IN
    IF t.env.ENABLE_TRADING # "true"
    THEN [t EXCEPT !.calls[leg] = @ + 1, !.call = LegReturned(leg, "simulated")]
    ELSE IF ~(t.env.listed[leg] /\ t.env.active[leg]) \/ Blocked(cb, now)
    THEN [t EXCEPT !.calls[leg] = @ + 1, !.call = LegReturned(leg, "null")]
    ELSE [t EXCEPT !.calls[leg] = @ + 1,
                   !.breakers[leg] = Gate(cb, now),
                   !.placed[leg] = Append(@, "pending"),
                   !.call = [leg |-> leg, state |-> "placing", attempt |-> 0,
                             value |-> "none"]]

\* The head of executeArbitrage: a validation that throws ends the
\* execution, else the buy leg is entered.
Start(t) ==
    IF ~ValidInput(t.input)
    THEN [t EXCEPT !.pc = "Failed"]
    ELSE EnterLeg([t EXCEPT !.pc = "BuyPending"], "buy")

\* The placement call has settled: the order goes back through withRetry
\* and the breaker; an error is rethrown at the last attempt or when the
\* retry condition is false, and caught by executeBuy / executeSell, which
\* returns null; else the backoff delay begins.
AfterPlacement(t, outcome) ==
    LET leg == t.call.leg
        settled == [t EXCEPT !.placed[leg][Len(t.placed[leg])] = outcome]
    IN  IF outcome = "order"
        THEN [settled EXCEPT !.breakers[leg] = onSuccess(@),
                             !.call = LegReturned(leg, "order")]
        ELSE IF GivesUp([attempt |-> t.call.attempt, maxRetries |-> placementRetries],
                        retryCondition(outcome))
        THEN [settled EXCEPT !.breakers[leg] = onFailure(@, now),
                             !.call = LegReturned(leg, "null")]
        ELSE [settled EXCEPT !.call.state = "delay", !.delays[leg] = @ + 1]

\* The backoff delay is over: the next attempt invokes the placement call.
AfterDelay(t) ==
    [t EXCEPT !.call.state = "placing", !.call.attempt = @ + 1,
              !.placed[t.call.leg] = Append(@, "pending")]

\* executeBuy / executeSell has returned to executeArbitrage.  Both catch
\* every error and return null, so the withRetry around them in
\* executeArbitrage sees its operation resolve and returns the value at its
\* first attempt.
AfterLegSellFailsAsBuy(t) ==
    IF t.call.leg = "buy"
    THEN IF t.call.value = "null"
         THEN [t EXCEPT !.pc = "Failed", !.call = NoLegCall]
         ELSE EnterLeg([t EXCEPT !.pc = "SellPending"], "sell")
    ELSE IF t.call.value = "null"
         THEN [t EXCEPT !.pc = "Failed", !.call = NoLegCall]
         ELSE [t EXCEPT !.pc = "Completed", !.call = NoLegCall,
                        !.recorded.trade = "pending"]
AfterLeg(t) ==
    IF t.call.leg = "buy"
    THEN IF t.call.value = "null"
         THEN [t EXCEPT !.pc = "Failed", !.call = NoLegCall]
         ELSE EnterLeg([t EXCEPT !.pc = "SellPending"], "sell")
    ELSE IF t.call.value = "null"
         THEN [t EXCEPT !.pc = "PartiallyFailed", !.critical = @ + 1, !.call = NoLegCall]
         ELSE [t EXCEPT !.pc = "Completed", !.call = NoLegCall,
                        !.recorded.trade = "pending"]

\* recordArbitrageOpportunity / recordTrade has settled: both resolve, to
\* true or after a logged error to false, and the caller's catch only logs.
AfterRecordRollsBack(t, which, ok) ==
    [t EXCEPT !.recorded[which] = IF ok THEN "ok" ELSE "failed",
              !.pc = IF ok THEN @ ELSE "Failed"]
AfterRecord(t, which, ok) ==
    [t EXCEPT !.recorded[which] = IF ok THEN "ok" ELSE "failed"]

\* The key of the opportunity
tradeKey == Key("BTC/USDT", VenueOf.buy, VenueOf.sell)

\* The finally block of executeArbitrageWithRecovery
Finish(t) ==
    timers' = IF t.pc \in Terminal
              THEN timers (+) SetToBag({[key |-> tradeKey, due |-> now + Cooldown]})
              ELSE timers

\* findAndExecuteArbitrageOpportunity from the persistence call on: the
\* dispatch decision, and for an admitted opportunity the insertion into
\* activeArbitrageOps and executeArbitrage up to its first suspension.
dispatch ==
    LET noted == [trade EXCEPT !.recorded.opportunity = "pending"] IN
    /\ trade.dispatched = "none"
    /\ IF ShouldExecute(activeArbitrageOps, tradeKey)
       THEN /\ activeArbitrageOps' = set(activeArbitrageOps, tradeKey, now)
            /\ trade' = Start([noted EXCEPT !.dispatched = "admitted"])
            /\ Finish(trade')
       ELSE /\ trade' = [noted EXCEPT !.dispatched = "skipped"]
            /\ UNCHANGED <<activeArbitrageOps, timers>>
    /\ UNCHANGED <<MAX_CONCURRENT_TRADES, now, execs, lastAttempt, lastFinished,
                   breakerVars, retryVars, detectVars, healthVars, collectVars, startVars>>

\* The venue settles the placement call that is in flight.
placementSettles(outcome) ==
    /\ trade.call.state = "placing"
    /\ trade' = AfterPlacement(trade, outcome)
    /\ UNCHANGED <<now, engineVars, breakerVars, retryVars, detectVars, healthVars,
                   collectVars, startVars>>

\* The timer of the backoff delay fires.
backoffElapses ==
    /\ trade.call.state = "delay"
    /\ trade' = AfterDelay(trade)
    /\ UNCHANGED <<now, engineVars, breakerVars, retryVars, detectVars, healthVars,
                   collectVars, startVars>>

\* executeArbitrage resumes with the value of executeBuy / executeSell.
legReturns ==
    /\ trade.call.state = "returned"
    /\ trade' = AfterLeg(trade)
    /\ Finish(trade')
    /\ UNCHANGED <<MAX_CONCURRENT_TRADES, now, activeArbitrageOps, execs, lastAttempt,
                   lastFinished, breakerVars, retryVars, detectVars, healthVars,
                   collectVars, startVars>>

\* A persistence call settles.
recordSettles(which, ok) ==
    /\ trade.recorded[which] = "pending"
    /\ trade' = AfterRecord(trade, which, ok)
    /\ UNCHANGED <<now, engineVars, breakerVars, retryVars, detectVars, healthVars,
                   collectVars, startVars>>

InitTrade ==
    /\ MAX_CONCURRENT_TRADES = 1
    /\ now = 0
    /\ execs = EmptyBag
    /\ timers = EmptyBag
    /\ lastAttempt = NoAttempt
    /\ lastFinished = NoExec
    /\ InitBreaker
    /\ IdleRetry
    /\ IdleDetector
    /\ IdleHealth
    /\ IdleCollect
    /\ IdleStart
    /\ \E input \in Inputs, env \in Envs, cbs \in [Legs -> {ClosedBreaker, OpenBreaker(now)}],
          busy \in BOOLEAN :
           /\ ValidInput(input)
              \/ (env = LiveEnv /\ cbs = [l \in Legs |-> ClosedBreaker] /\ ~busy)
           /\ busy => env = LiveEnv /\ cbs = [l \in Legs |-> ClosedBreaker]
           /\ activeArbitrageOps = IF busy THEN set(<<>>, tradeKey, now) ELSE <<>>
           /\ trade = [NoTrade EXCEPT
                         !.input = input, !.env = env, !.breakers = cbs,
                         !.calls = [l \in Legs |-> 0],
                         !.placed = [l \in Legs |-> <<>>],
                         !.delays = [l \in Legs |-> 0],
                         !.recorded = [opportunity |-> "none", trade |-> "none"]]

NextTrade ==
    \/ dispatch
    \/ \E outcome \in PlacementOutcomes : placementSettles(outcome)
    \/ backoffElapses
    \/ legReturns
    \/ \E which \in {"opportunity", "trade"}, ok \in BOOLEAN : recordSettles(which, ok)

SpecTrade == InitTrade /\ [][NextTrade]_vars

\* The venue calls settle, the timers fire and the continuations run.
SpecTradeFair ==
    /\ SpecTrade
    /\ WF_vars(dispatch)
    /\ WF_vars(\E outcome \in PlacementOutcomes : placementSettles(outcome))
    /\ WF_vars(backoffElapses)
    /\ WF_vars(legReturns)

(***************************************************************************)
(* Claims about one execution, checked under SpecTrade and SpecTradeFair   *)
(***************************************************************************)
Path ==
    {<<"Idle", "BuyPending">>, <<"Idle", "Failed">>, <<"BuyPending", "SellPending">>,
     <<"BuyPending", "Failed">>, <<"SellPending", "Completed">>,
     <<"SellPending", "PartiallyFailed">>}

\* C25: an admitted execution whose venue calls settle ends in Completed,
\* Failed or PartiallyFailed; its state moves only along Idle, BuyPending,
\* SellPending and then Completed or PartiallyFailed, or leaves early to
\* Failed, and a terminal state is never left.
C25_ReachesOneTerminalState ==
    /\ [][trade'.pc # trade.pc => <<trade.pc, trade'.pc>> \in Path]_vars
    /\ (trade.dispatched = "admitted") ~> (trade.pc \in Terminal)

\* The sell placement was retried after a timeout and failed again.
C25_Witness ==
    /\ trade.pc = "PartiallyFailed"
    /\ Len(trade.placed.sell) = 2
    /\ trade.placed.buy = <<"order">>

\* A persistence call goes from pending to settled.
PersistenceSettles ==
    \E which \in {"opportunity", "trade"} :
        /\ trade.recorded[which] = "pending"
        /\ trade'.recorded[which] \in {"ok", "failed"}

\* C26: when a persistence call settles, with success or with failure, the
\* dispatch decision, activeArbitrageOps, the state of the execution, its
\* placements and its cooldown timer stay as they are.
C26_PersistenceFrame ==
    [][PersistenceSettles =>
          /\ trade'.dispatched = trade.dispatched
          /\ activeArbitrageOps' = activeArbitrageOps
          /\ timers' = timers
          /\ trade'.pc = trade.pc
          /\ trade'.call = trade.call
          /\ trade'.calls = trade.calls
          /\ trade'.placed = trade.placed
          /\ trade'.breakers = trade.breakers]_vars

\* Both records failed to be written and the execution is Completed.
C26_Witness ==
    /\ trade.pc = "Completed"
    /\ trade.recorded = [opportunity |-> "failed", trade |-> "failed"]
    /\ trade.placed = [l \in Legs |-> <<"order">>]

\* C27: while ENABLE_TRADING is not 'true', executeBuy and executeSell
\* return the simulated order: the placement call is never invoked and the
\* venues' breakers stay as they are.
C27_SimulatedWhenDisabled ==
    [][trade.env.ENABLE_TRADING # "true" =>
          /\ trade'.placed = [l \in Legs |-> <<>>]
          /\ trade'.breakers = trade.breakers
          /\ trade'.call.state = "returned" => trade'.call.value = "simulated"]_vars

\* Both legs were simulated although the pair is not listed and both
\* breakers are open.
C27_Witness ==
    /\ trade.env.ENABLE_TRADING = "false"
    /\ trade.pc = "Completed"
    /\ trade.calls = [l \in Legs |-> 1]
    /\ \A l \in Legs : ~trade.env.listed[l] /\ trade.breakers[l].state = "OPEN"

\* An input that is not a well-formed pair, a positive finite amount, two
\* venues with an id and an opportunity with positive finite prices
PositiveFinite(v) == isFinite(v) /\ v.n > 0
Malformed(input) ==
    \/ ~(input.symbol.type = "string" /\ MatchesBaseQuote(input.symbol.text))
    \/ ~PositiveFinite(input.amount)
    \/ input.buyExchange.kind = "null" \/ input.buyExchange.id = ""
    \/ input.sellExchange.kind = "null" \/ input.sellExchange.id = ""
    \/ input.opportunity.kind = "null"
    \/ ~PositiveFinite(input.opportunity.buyPrice)
    \/ ~PositiveFinite(input.opportunity.sellPrice)

\* C29: an execution with a malformed input ends Failed at once: neither
\* leg is entered, no placement is invoked and no delay is waited.
C29_MalformedRejected ==
    Malformed(trade.input) /\ trade.dispatched = "admitted" =>
        /\ trade.pc = "Failed"
        /\ trade.calls = [l \in Legs |-> 0]
        /\ trade.placed = [l \in Legs |-> <<>>]
        /\ trade.delays = [l \in Legs |-> 0]

\* C30: each leg invokes the placement call at most twice, the second time
\* only after an error that is a timeout and names neither insufficient
\* funds nor the balance.
C30_PlacementAtMostTwice ==
    \A l \in Legs :
        /\ trade.calls[l] <= 1
        /\ Len(trade.placed[l]) <= placementRetries + 1
        /\ Len(trade.placed[l]) > 1 =>
               IncludesTimeout(trade.placed[l][1]) /\ ~IncludesFunds(trade.placed[l][1])

\* Both legs placed their order at the second invocation.
C30_Witness ==
    trade.placed = [l \in Legs |-> <<"timeout", "order">>]

-----------------------------------------------------------------------------
(* The start of the scanner: validateConfiguration on the values parsed     *)
(* from the environment, the test of the exchanges object, the first scan   *)
(* and the two intervals.  The threshold is in hundredths of a percent.     *)

\* Firings of each interval that are followed
MaxFirings == 2

\* v > n and v < n for a JavaScript number v: false when v is NaN
Above(v, n) == ~v.nan /\ (v.inf \/ v.n > n)
Below(v, n) == ~v.nan /\ ~v.inf /\ v.n < n

\* validateConfiguration does not throw
ConfigurationAccepted(config) ==
    /\ ~(AtMostZero(config.ARBITRAGE_THRESHOLD) \/ Above(config.ARBITRAGE_THRESHOLD, 5000))
    /\ ~(AtMostZero(config.TRADE_AMOUNT) \/ Above(config.TRADE_AMOUNT, 100000))
    /\ ~(AtMostZero(config.MAX_CONCURRENT_TRADES) \/ Above(config.MAX_CONCURRENT_TRADES, 10))
    /\ ~(Below(config.SCAN_INTERVAL, 1000) \/ Above(config.SCAN_INTERVAL, 60000))

\* if (!exchanges || typeof exchanges !== 'object' || Object.keys(exchanges).length === 0)
NoExchanges(exchanges) == exchanges = {}

\* What parseFloat and parseInt make of the environment: a number, or NaN
\* for a text that does not begin with one; parseFloat also reads Infinity.
Configs ==
    [ARBITRAGE_THRESHOLD : {Num(50), Num(0), Num(5000), Num(5001), NaN, Infinity},
     TRADE_AMOUNT : {Num(100), Num(0), Num(100000), Num(100001), NaN},
     MAX_CONCURRENT_TRADES : {Num(1), Num(0), Num(10), Num(11), NaN},
     SCAN_INTERVAL : {Num(1000), Num(999), Num(60000), Num(60001), NaN}]
ExchangeSets == {{}, {"binance"}, SUPPORTED_EXCHANGES}

\* startArbitrageScanner: a failed validation throws, which startBot answers
\* with process.exit(1); else the health map is filled, the first scan is
\* started and the two intervals are set.
startArbitrageScanner ==
    /\ scanner.pc = "idle"
    /\ IF ~ConfigurationAccepted(scanner.config) \/ NoExchanges(scanner.exchanges)
       THEN /\ scanner' = [scanner EXCEPT !.pc = "fatal"]
            /\ UNCHANGED exchangeHealth
       ELSE /\ scanner' = [scanner EXCEPT !.pc = "running", !.scans = 1,
                                          !.intervals = {"scan", "sweep"}]
            /\ exchangeHealth' = [e \in scanner.exchanges |-> NewHealth(now)]
    /\ UNCHANGED <<now, engineVars, breakerVars, retryVars, detectVars,
                   pending, failures, swept, collectVars, tradeVars>>

\* setInterval(scanWithRecovery, SCAN_INTERVAL) fires
scanWithRecovery ==
    /\ "scan" \in scanner.intervals
    /\ scanner.scans <= MaxFirings
    /\ scanner' = [scanner EXCEPT !.scans = @ + 1]
    /\ UNCHANGED <<now, engineVars, breakerVars, retryVars, detectVars, healthVars,
                   collectVars, tradeVars>>

\* The 30-second interval of the health check and the stale sweep fires
sweepInterval ==
    /\ "sweep" \in scanner.intervals
    /\ scanner.sweeps < MaxFirings
    /\ scanner' = [scanner EXCEPT !.sweeps = @ + 1]
    /\ UNCHANGED <<now, engineVars, breakerVars, retryVars, detectVars, healthVars,
                   collectVars, tradeVars>>

InitStart ==
    /\ MAX_CONCURRENT_TRADES = 1
    /\ InitEngine
    /\ InitBreaker
    /\ IdleRetry
    /\ IdleDetector
    /\ IdleHealth
    /\ IdleCollect
    /\ IdleTrade
    /\ \E config \in Configs, exchanges \in ExchangeSets :
           scanner = [NoScanner EXCEPT !.config = config, !.exchanges = exchanges]

NextStart ==
    \/ startArbitrageScanner
    \/ scanWithRecovery
    \/ sweepInterval

SpecStart == InitStart /\ [][NextStart]_vars

\* A value inside the range (lo, hi]
Within(v, lo, hi) == isFinite(v) /\ lo < v.n /\ v.n <= hi
InsideRanges(config) ==
    /\ Within(config.ARBITRAGE_THRESHOLD, 0, 5000)
    /\ Within(config.TRADE_AMOUNT, 0, 100000)
    /\ Within(config.MAX_CONCURRENT_TRADES, 0, 10)
    /\ Within(config.SCAN_INTERVAL, 999, 60000)

\* C28: started with no venue or with a configuration outside the ranges,
\* the scanner ends in the fatal error: no scan is run and neither
\* interval is set.
C28_InvalidStartIsFatal ==
    (scanner.exchanges = {} \/ ~InsideRanges(scanner.config)) /\ scanner.pc # "idle" =>
        /\ scanner.pc = "fatal"
        /\ scanner.scans = 0
        /\ scanner.sweeps = 0
        /\ scanner.intervals = {}

-----------------------------------------------------------------------------
(* Further claims about the engine, checked under Spec                      *)

C35_TimerRemovesOwnEntry ==
    [][\A t \in BagToSet(timers) :
          (/\ timers' = timers (-) SetToBag({t})
           /\ has(activeArbitrageOps, t.key)
           /\ activeArbitrageOps[t.key] > t.due - Cooldown)
              => has(activeArbitrageOps', t.key)]_vars

-----------------------------------------------------------------------------
(* Further claims about the health tracker.  SpecHealthFair adds what the   *)
(* timers and the venues guarantee: the scan interval and the sweep         *)
(* interval keep firing, time passes, every fetch settles, and a venue      *)
(* that is fetched from again and again brings a quote at some time.        *)

SpecHealthFair ==
    /\ SpecHealth
    /\ WF_vars(scanForArbitrageOpportunities)
    /\ WF_vars(healthSweep)
    /\ WF_vars(Pass)
    /\ WF_vars(\E f \in BagToSet(pending), outcome \in FetchOutcomes : fetchSettles(f, outcome))
    /\ SF_vars(\E f \in BagToSet(pending) : fetchSettles(f, "quote"))

\* C39: a venue that is unhealthy is healthy again at some later time.
C39_UnhealthyRecovers ==
    \A e \in SUPPORTED_EXCHANGES :
        (~exchangeHealth[e].healthy) ~> exchangeHealth[e].healthy

\* C40: the health sweep leaves unhealthy every venue that is unhealthy with
\* maxErrorCount fetch errors or more on its count.
C40_SweepNeverRestores ==
    [][\A e \in SUPPORTED_EXCHANGES :
          (swept' /\ ~exchangeHealth[e].healthy
              /\ exchangeHealth[e].errorCount >= maxErrorCount)
             => ~exchangeHealth'[e].healthy]_vars

-----------------------------------------------------------------------------
(* Further claims about the quote collection, checked under SpecCollect     *)

\* The venues whose fetch for a pair brought a book with a positive bid, a
\* positive ask and the bid below the ask
ValidQuotesOf(s) ==
    {e \in SUPPORTED_EXCHANGES :
        /\ scan.results[s][e].state = "book"
        /\ Positive(scan.results[s][e].bestBid)
        /\ Positive(scan.results[s][e].bestAsk)
        /\ ~AtLeast(scan.results[s][e].bestBid, scan.results[s][e].bestAsk)}

(***************************************************************************)
(* Successive scan cycles, specification SpecCycles: the cycles of          *)
(* SpecCollect one after the other, every venue healthy and every fetch     *)
(* bringing a valid book or nothing, so that only the detector can fail     *)
(***************************************************************************)
MaxScanErrors == 2

PlainReturns ==
    {Fetched("book", Num(100), Num(101)), Fetched("book", Num(102), Num(103)),
     NoBook("null")}

\* Promise.allSettled of the cycle resolves and scanWithRecovery returns; the
\* next firing of the scan interval finds the maps as the cycle left them.
cycleEnds ==
    /\ scan.pc = "done"
    /\ \A s \in Symbols : scan.scanErrors[s] < MaxScanErrors
    /\ scan' = [scan EXCEPT !.pc = "idle", !.exchanges = {}, !.queried = {},
                            !.results = <<>>, !.status = <<>>,
                            !.priceData = [s \in Symbols |-> <<>>]]
    /\ UNCHANGED <<now, engineVars, breakerVars, retryVars, detectVars, healthVars,
                   tradeVars, startVars>>

\* runtime.scanErrors of getArbitrageStatus: Object.fromEntries(scanErrors), an
\* entry for every pair whose scan has failed at least once
getArbitrageStatus(sc) ==
    [s \in {p \in DOMAIN sc.scanErrors : sc.scanErrors[p] > 0} |-> sc.scanErrors[s]]

InitCycles ==
    /\ MAX_CONCURRENT_TRADES = 1
    /\ InitEngine
    /\ InitBreaker
    /\ IdleRetry
    /\ IdleDetector
    /\ IdleTrade
    /\ IdleStart
    /\ exchangeHealth = [e \in SUPPORTED_EXCHANGES |-> NewHealth(now)]
    /\ pending = EmptyBag
    /\ failures = <<>>
    /\ swept = FALSE
    /\ scan = [NoScan EXCEPT !.priceData = [s \in Symbols |-> <<>>],
                             !.scanErrors = [s \in Symbols |-> 0]]

NextCycles ==
    \/ scanCycle
    \/ \E s \in Symbols, e \in SUPPORTED_EXCHANGES, r \in PlainReturns :
           fetchOrderBookReturns(s, e, r)
    \/ \E s \in Symbols, throws \in BOOLEAN : pairJoined(s, throws)
    \/ cycleEnds

SpecCycles == InitCycles /\ [][NextCycles]_vars

\* The count the status snapshot shows for a pair
ScanErrorCount(sc, s) ==
    IF s \in DOMAIN getArbitrageStatus(sc) THEN getArbitrageStatus(sc)[s] ELSE 0

\* C34: when the scan of a pair ends, the count the status snapshot shows
\* for the pair is one more than before if the scan failed, and zero if it
\* completed without error.
C34_ConsecutiveFailures ==
    [][\A s \in Symbols :
          (/\ s \in DOMAIN scan.status /\ scan.status[s] = "collecting"
           /\ s \in DOMAIN scan'.status /\ scan'.status[s] # "collecting")
              => ScanErrorCount(scan', s) =
                     IF scan'.status[s] = "failed"
                     THEN ScanErrorCount(scan, s) + 1 ELSE 0]_vars

\* C38: a cycle that begins with the ActiveOperation map at the ceiling, or
\* with fewer than two healthy venues, ends at once: it issues no fetch,
\* collects and records nothing, dispatches nothing and leaves the venue
\* health and the map as they were.
C38_SkippedCycleIsInert ==
    [][(/\ scan.pc = "idle" /\ scan'.pc # "idle"
        /\ \/ size(activeArbitrageOps) >= MAX_CONCURRENT_TRADES
           \/ Cardinality({e \in SUPPORTED_EXCHANGES : exchangeHealth[e].healthy}) < 2)
          => /\ scan' = [scan EXCEPT !.pc = "done"]
             /\ scan'.queried = {} /\ scan'.results = <<>>
             /\ exchangeHealth' = exchangeHealth
             /\ activeArbitrageOps' = activeArbitrageOps
             /\ execs' = execs /\ timers' = timers]_vars

\* A cycle was skipped at the ceiling although every venue was healthy.
C38_Witness ==
    /\ scan.pc = "done"
    /\ scan.queried = {}
    /\ size(activeArbitrageOps) >= MAX_CONCURRENT_TRADES
    /\ \A e \in SUPPORTED_EXCHANGES : exchangeHealth[e].healthy

\* C31: the detector is called for a pair only when two venues or more
\* produced a valid quote for it in the cycle.
C31_DetectionNeedsTwoValid ==
    \A s \in DOMAIN scan.status :
        scan.status[s] \in {"detected", "failed"} => Cardinality(ValidQuotesOf(s)) >= 2

====
